---- MODULE Spec2Model ----
(***************************************************************************)
(* Track segmentation of run-visuals.                                      *)
(*                                                                         *)
(*   src/section.py  Section.from_gpx_track, SectionPoint, SectionBounds,  *)
(*                   SectionStats                                          *)
(*   src/run.py      Run.process_gpx, Section.process_section,             *)
(*                   SectionPoint, Point                                   *)
(*                                                                         *)
(* A track is a list of GPX points on a small integer grid: one grid step  *)
(* is one metre, one time step is one second.  Sequences are 1-based, so   *)
(* Python's gpx_points[k] is gpx_points[k + 1] here.                       *)
(***************************************************************************)
EXTENDS Integers, Sequences, FiniteSets

\* ------------------------------------------------------------ bounds ----
\* Longest track.
MaxLen == 3
\* Largest coordinate handed to SectionBounds in BoundsSpec.
MaxCoord == 2

\* The grid of the tracks: latitudes three metres apart, longitudes one metre
\* apart, so that points 0, 1 and 3 m from each other occur: a point can be
\* too fast (3 m in 2 s against 1 m/s) and idle (2 s against 1 s) at once.
Lats == {0, 3}
Longs == {0, 1}
Elevations == {0}

\* Threshold settings handed to Section.from_gpx_track.
MinSpacings == {0, 1, 2}
MaxSpeeds == {1, 2}
MaxIdles == {1, 2}

\* Defaults of Section.process_section, which Run.process_gpx always uses.
duplicate_thresh == 1
idle_thresh == 15

\* Timestamps of the tracks given to from_gpx_track (not sorted: nothing in
\* the code orders them), and of those given to process_section (spread so
\* that two steps exceed idle_thresh and one does not).
SectionTimes == {0, 1, 2}
RunTimes == {t * (idle_thresh \div 2 + 1) : t \in SectionTimes}

GpxPoints(times) ==
    [latitude : Lats, longitude : Longs, elevation : Elevations, time : times]

Tracks(times) == UNION {[1..n -> GpxPoints(times)] : n \in 0..MaxLen}

\* ----------------------------------------------------------- helpers ----
Isqrt(n) == CHOOSE r \in 0..n : r * r <= n /\ (r + 1) * (r + 1) > n

Last(s) == s[Len(s)]

\* Python's s[k:].
PySliceFrom(s, k) ==
    LET start == IF k >= 0 THEN k
                 ELSE IF Len(s) + k >= 0 THEN Len(s) + k ELSE 0
    IN  IF start >= Len(s) THEN <<>> ELSE SubSeq(s, start + 1, Len(s))

RECURSIVE SumSeq(_)
SumSeq(s) == IF s = <<>> THEN 0 ELSE s[1] + SumSeq(Tail(s))

RECURSIVE Flatten(_)
Flatten(ss) == IF ss = <<>> THEN <<>> ELSE ss[1] \o Flatten(Tail(ss))

SetMin(S) == CHOOSE x \in S : \A y \in S : x <= y
SetMax(S) == CHOOSE x \in S : \A y \in S : x >= y

\* ------------------------------------------------- src/section.py ------
\* gpxpy's geo.distance over (lat, long, elev) triples, in metres on the grid.
geo_distance(lat1, long1, elev1, lat2, long2, elev2) ==
    Isqrt((lat1 - lat2) * (lat1 - lat2)
          + (long1 - long2) * (long1 - long2)
          + (elev1 - elev2) * (elev1 - elev2))

\* SectionPoint.from_gpx_point
from_gpx_point(gpx_point) ==
    [lat |-> gpx_point.latitude,
     long |-> gpx_point.longitude,
     elev |-> gpx_point.elevation,
     time |-> gpx_point.time]

\* As from_point, with the longitude copied into lat_max.
from_point_miscopied(point) ==
    [lat_min |-> point.lat, lat_max |-> point.long,
     long_min |-> point.long, long_max |-> point.long]

\* SectionBounds.from_point
from_point(point) ==
    [lat_min |-> point.lat, lat_max |-> point.lat,
     long_min |-> point.long, long_max |-> point.long]

\* As expand_one, without the branch that raises long_max.
expand_one_no_long_max(self, point) ==
    LET lat_done ==
            IF point.lat < self.lat_min
            THEN [self EXCEPT !.lat_min = point.lat]
            ELSE IF point.lat > self.lat_max
                 THEN [self EXCEPT !.lat_max = point.lat]
                 ELSE self
    IN  IF point.long < lat_done.long_min
        THEN [lat_done EXCEPT !.long_min = point.long]
        ELSE lat_done

\* As expand_one, with a latitude above lat_max stored in lat_min.
expand_one_wrong_field(self, point) ==
    LET lat_done ==
            IF point.lat < self.lat_min
            THEN [self EXCEPT !.lat_min = point.lat]
            ELSE IF point.lat > self.lat_max
                 THEN [self EXCEPT !.lat_min = point.lat]
                 ELSE self
    IN  IF point.long < lat_done.long_min
        THEN [lat_done EXCEPT !.long_min = point.long]
        ELSE IF point.long > lat_done.long_max
             THEN [lat_done EXCEPT !.long_max = point.long]
             ELSE lat_done

\* One round of the `for point in points` loop of SectionBounds.expand.
expand_one(self, point) ==
    LET lat_done ==
            IF point.lat < self.lat_min
            THEN [self EXCEPT !.lat_min = point.lat]
            ELSE IF point.lat > self.lat_max
                 THEN [self EXCEPT !.lat_max = point.lat]
                 ELSE self
    IN  IF point.long < lat_done.long_min
        THEN [lat_done EXCEPT !.long_min = point.long]
        ELSE IF point.long > lat_done.long_max
             THEN [lat_done EXCEPT !.long_max = point.long]
             ELSE lat_done

\* SectionBounds.expand with a SectionPoint.
expand_point(self, point) == expand_one(self, point)

\* As expand_bounds, with the lower corner alone.
expand_bounds_lower_corner(self, other) ==
    expand_one(self, [lat |-> other.lat_min, long |-> other.long_min,
                      elev |-> 0, time |-> 0])

\* SectionBounds.expand with another SectionBounds: its two corners in turn.
expand_bounds(self, other) ==
    expand_one(
        expand_one(self, [lat |-> other.lat_min, long |-> other.long_min,
                          elev |-> 0, time |-> 0]),
        [lat |-> other.lat_max, long |-> other.long_max, elev |-> 0, time |-> 0])

\* As add_distance, with `=` for `+=`.
add_distance_assigned(section_stats, dist) ==
    [section_stats EXCEPT !.distance = dist]

\* Line 86: stats.distance += distance
add_distance(section_stats, dist) ==
    [section_stats EXCEPT !.distance = @ + dist]

\* Line 71-72: speed = distance / elapsed; speed > max_speed (elapsed # 0).
speed_exceeds(dist, secs, limit) ==
    IF secs > 0 THEN dist > limit * secs ELSE dist < limit * secs

\* As break_point_idx, without the step back.
break_point_idx_kept(idx) == idx

\* Line 81: the index is stepped back before the break.
break_point_idx(idx) == idx - 1

\* As remaining_of, one position further.
remaining_of_one_further(gpx, idx) == PySliceFrom(gpx, idx + 3)

\* Line 95: gpx_points[point_idx + 2 :]
remaining_of(gpx, idx) == PySliceFrom(gpx, idx + 2)

\* Line 90: the discard count written to the log.
discarded_of(idx, collected) == idx - (Len(collected) - 2)

\* ------------------------------------------------------ src/run.py ------
\* Point.web_mercator: x is linear in the longitude, y grows faster than
\* linearly in the latitude (y = R * (phi + phi^3 / 6 + ...)).
web_mercator(gpx_pt) ==
    [x |-> gpx_pt.longitude,
     y |-> gpx_pt.latitude
           + (gpx_pt.latitude * gpx_pt.latitude * gpx_pt.latitude) \div 6]

\* Point.distance
point_distance(self, point) ==
    Isqrt((self.x - point.x) * (self.x - point.x)
          + (self.y - point.y) * (self.y - point.y))

\* run.py's SectionPoint.from_gpx_point (the extensions dictionary, which no
\* operation reads, is left out).
run_from_gpx_point(gpx_point) ==
    [position |-> web_mercator(gpx_point),
     elevation |-> gpx_point.elevation,
     time |-> gpx_point.time]

\* As run_remaining_of, one position earlier.
run_remaining_of_one_earlier(gpx, idx) == PySliceFrom(gpx, idx + 1)

\* Line 137: gpx_points[(point_id + 2) :]
run_remaining_of(gpx, idx) == PySliceFrom(gpx, idx + 2)

\* ------------------------------------------------------------- state ----
VARIABLES
    mode,            \* which program runs: "track", "run" or "bounds"
    track,           \* the points read from the GPX file
    min_spacing, max_speed, max_idle,
    pc,              \* position of the program
    points,          \* the caller's remaining points
    sections,        \* the caller's list of sections
    pass,            \* 1: segmenting the track, 2: segmenting the concatenation
    first_sections,  \* the sections of pass 1
    gpx_points,      \* argument of the running builder call
    result,          \* <<section, remaining>> returned by the builder
    \* locals of Section.from_gpx_track
    collected_points, stats, bounds, point_idx, ending_reason,
    distance, elapsed,
    cursor,          \* rounds of the for loop done so far
    log_discarded,   \* the discard count of the logger.info line
    \* locals of run.py's Section.process_section
    projected, lower_bound, upper_bound, total_distance,
    ommitted_total, ommitted_count, point_id, dist_from_prev, idle_time,
    \* history of the running call: the positions in gpx_points of the
    \* collected points, the position of the point that broke the loop
    \* (0: none), and the outcome of the last round
    accepted_idx, break_at, last_round,
    \* the point that ended the section before the running call, if any
    prev_boundary,
    \* a second SectionBounds object, for merges
    other_bounds

caller_vars == <<points, sections, pass, first_sections>>
input_vars == <<mode, track, min_spacing, max_speed, max_idle>>
fgt_vars == <<collected_points, stats, bounds, point_idx, ending_reason,
              distance, elapsed, log_discarded>>
ps_vars == <<projected, lower_bound, upper_bound, total_distance,
             ommitted_total, ommitted_count, point_id, dist_from_prev,
             idle_time>>
hist_vars == <<accepted_idx, break_at, last_round, prev_boundary>>

vars == <<input_vars, pc, caller_vars, gpx_points, result, fgt_vars, cursor,
          ps_vars, hist_vars, other_bounds>>

NoPoint == [lat |-> 0, long |-> 0, elev |-> 0, time |-> 0]
NoBounds == from_point(NoPoint)
NoXY == [x |-> 0, y |-> 0]

InitLocals ==
    /\ points = track
    /\ sections = <<>>
    /\ pass = 1
    /\ first_sections = <<>>
    /\ gpx_points = <<>>
    /\ result = <<>>
    /\ collected_points = <<>>
    /\ stats = [distance |-> 0]
    /\ point_idx = 0
    /\ ending_reason = ""
    /\ distance = 0
    /\ elapsed = 0
    /\ cursor = 0
    /\ log_discarded = 0
    /\ projected = <<>>
    /\ lower_bound = NoXY
    /\ upper_bound = NoXY
    /\ total_distance = 0
    /\ ommitted_total = 0
    /\ ommitted_count = 0
    /\ point_id = 0
    /\ dist_from_prev = 0
    /\ idle_time = 0
    /\ accepted_idx = <<>>
    /\ break_at = 0
    /\ prev_boundary = <<>>

\* A caller about to segment a track with Section.from_gpx_track.
InitTrack ==
    /\ mode = "track"
    /\ track \in Tracks(SectionTimes)
    /\ min_spacing \in MinSpacings
    /\ max_speed \in MaxSpeeds
    /\ max_idle \in MaxIdles
    /\ pc = "track_test"
    /\ InitLocals
    /\ bounds = NoBounds
    /\ other_bounds = NoBounds
    /\ last_round = "none"

\* Run.process_gpx about to enter its while loop.
InitRun ==
    /\ mode = "run"
    /\ track \in Tracks(RunTimes)
    /\ min_spacing = 0
    /\ max_speed = 0
    /\ max_idle = 0
    /\ pc = "run_test"
    /\ InitLocals
    /\ bounds = NoBounds
    /\ other_bounds = NoBounds
    /\ last_round = "none"

Init == InitTrack \/ InitRun

\* ------------------------------------- Section.from_gpx_track, 48-96 ----
\* Lines 48-52.
FgtEnter ==
    /\ pc = "fgt_call"
    /\ collected_points' = <<from_gpx_point(gpx_points[1])>>
    /\ stats' = [distance |-> 0]
    /\ bounds' = from_point(from_gpx_point(gpx_points[1]))
    /\ point_idx' = 0
    /\ ending_reason' = "all points consumed"
    /\ cursor' = 0
    /\ accepted_idx' = <<1>>
    /\ break_at' = 0
    /\ last_round' = "none"
    /\ pc' = "fgt_loop"
    /\ UNCHANGED <<input_vars, caller_vars, gpx_points, result, distance,
                   elapsed, log_discarded, ps_vars, prev_boundary,
                   other_bounds>>

\* The point the next round of the loop examines, and what lines 54-62, 70
\* compute for it.
fgt_more == pc = "fgt_loop" /\ cursor + 2 <= Len(gpx_points)
fgt_point == gpx_points[cursor + 2]
\* As fgt_prev_point, with the point just before the examined one in the
\* input as the reference.
fgt_prev_point_raw == from_gpx_point(gpx_points[cursor + 1])

\* Line 54: the reference of the comparison is the last collected point.
fgt_prev_point == Last(collected_points)
fgt_distance ==
    geo_distance(fgt_point.latitude, fgt_point.longitude, fgt_point.elevation,
                 fgt_prev_point.lat, fgt_prev_point.long, fgt_prev_point.elev)
fgt_elapsed == fgt_point.time - fgt_prev_point.time

\* Lines 63-68: closer than min_spacing, discarded.
FgtDuplicate ==
    /\ fgt_more
    /\ fgt_distance < min_spacing
    /\ point_idx' = cursor
    /\ cursor' = cursor + 1
    /\ distance' = fgt_distance
    /\ last_round' = "duplicate"
    /\ UNCHANGED <<input_vars, pc, caller_vars, gpx_points, result,
                   collected_points, stats, bounds, ending_reason, elapsed,
                   log_discarded, ps_vars, accepted_idx, break_at,
                   prev_boundary,
                   other_bounds>>

\* Line 71 with elapsed = 0: ZeroDivisionError leaves the call and the caller.
FgtZeroDivision ==
    /\ fgt_more
    /\ ~(fgt_distance < min_spacing)
    /\ fgt_elapsed = 0
    /\ point_idx' = cursor
    /\ cursor' = cursor + 1
    /\ distance' = fgt_distance
    /\ elapsed' = fgt_elapsed
    /\ last_round' = "error"
    /\ pc' = "error"
    /\ UNCHANGED <<input_vars, caller_vars, gpx_points, result,
                   collected_points, stats, bounds, ending_reason,
                   log_discarded, ps_vars, accepted_idx, break_at,
                   prev_boundary,
                   other_bounds>>

\* Lines 72-77: faster than max_speed, discarded.
FgtTooFast ==
    /\ fgt_more
    /\ ~(fgt_distance < min_spacing)
    /\ fgt_elapsed # 0
    /\ speed_exceeds(fgt_distance, fgt_elapsed, max_speed)
    /\ point_idx' = cursor
    /\ cursor' = cursor + 1
    /\ distance' = fgt_distance
    /\ elapsed' = fgt_elapsed
    /\ last_round' = "too_fast"
    /\ UNCHANGED <<input_vars, pc, caller_vars, gpx_points, result,
                   collected_points, stats, bounds, ending_reason,
                   log_discarded, ps_vars, accepted_idx, break_at,
                   prev_boundary,
                   other_bounds>>

\* As FgtIdle, with the idle test ahead of the duplicate and speed filters.
FgtIdle_before_filters ==
    /\ fgt_more
    /\ fgt_elapsed > max_idle
    /\ ending_reason' = "idle period"
    /\ point_idx' = break_point_idx(cursor)
    /\ cursor' = cursor + 1
    /\ distance' = fgt_distance
    /\ elapsed' = fgt_elapsed
    /\ break_at' = cursor + 2
    /\ last_round' = "idle"
    /\ pc' = "fgt_break"
    /\ UNCHANGED <<input_vars, caller_vars, gpx_points, result,
                   collected_points, stats, bounds, log_discarded, ps_vars,
                   accepted_idx, prev_boundary, other_bounds>>

\* Lines 79-82: idle for longer than max_idle, the section ends.
FgtIdle ==
    /\ fgt_more
    /\ ~(fgt_distance < min_spacing)
    /\ fgt_elapsed # 0
    /\ ~speed_exceeds(fgt_distance, fgt_elapsed, max_speed)
    /\ fgt_elapsed > max_idle
    /\ ending_reason' = "idle period"
    /\ point_idx' = break_point_idx(cursor)
    /\ cursor' = cursor + 1
    /\ distance' = fgt_distance
    /\ elapsed' = fgt_elapsed
    /\ break_at' = cursor + 2
    /\ last_round' = "idle"
    /\ pc' = "fgt_break"
    /\ UNCHANGED <<input_vars, caller_vars, gpx_points, result,
                   collected_points, stats, bounds, log_discarded, ps_vars,
                   accepted_idx, prev_boundary,
                   other_bounds>>

\* As FgtAccept, reached also by a point closer than min_spacing (the
\* duplicate branch without its `continue`).
FgtAccept_any_spacing ==
    /\ fgt_more
    /\ fgt_elapsed # 0
    /\ ~speed_exceeds(fgt_distance, fgt_elapsed, max_speed)
    /\ ~(fgt_elapsed > max_idle)
    /\ collected_points' = Append(collected_points, from_gpx_point(fgt_point))
    /\ bounds' = expand_point(bounds, from_gpx_point(fgt_point))
    /\ stats' = add_distance(stats, fgt_distance)
    /\ point_idx' = cursor
    /\ cursor' = cursor + 1
    /\ distance' = fgt_distance
    /\ elapsed' = fgt_elapsed
    /\ accepted_idx' = Append(accepted_idx, cursor + 2)
    /\ last_round' = "accepted"
    /\ UNCHANGED <<input_vars, pc, caller_vars, gpx_points, result,
                   ending_reason, log_discarded, ps_vars, break_at,
                   prev_boundary, other_bounds>>

\* Lines 84-86: the point is collected.
FgtAccept ==
    /\ fgt_more
    /\ ~(fgt_distance < min_spacing)
    /\ fgt_elapsed # 0
    /\ ~speed_exceeds(fgt_distance, fgt_elapsed, max_speed)
    /\ ~(fgt_elapsed > max_idle)
    /\ collected_points' = Append(collected_points, from_gpx_point(fgt_point))
    /\ bounds' = expand_point(bounds, from_gpx_point(fgt_point))
    /\ stats' = add_distance(stats, fgt_distance)
    /\ point_idx' = cursor
    /\ cursor' = cursor + 1
    /\ distance' = fgt_distance
    /\ elapsed' = fgt_elapsed
    /\ accepted_idx' = Append(accepted_idx, cursor + 2)
    /\ last_round' = "accepted"
    /\ UNCHANGED <<input_vars, pc, caller_vars, gpx_points, result,
                   ending_reason, log_discarded, ps_vars, break_at,
                   prev_boundary,
                   other_bounds>>

\* Lines 88-96, after the break or once the loop has run out of points.
FgtReturn ==
    /\ \/ pc = "fgt_break"
       \/ pc = "fgt_loop" /\ ~(cursor + 2 <= Len(gpx_points))
    /\ log_discarded' = discarded_of(point_idx, collected_points)
    /\ result' = <<[name |-> Len(sections),
                    points |-> collected_points,
                    stats |-> stats,
                    bounds |-> bounds],
                   remaining_of(gpx_points, point_idx)>>
    /\ pc' = "track_assign"
    /\ UNCHANGED <<input_vars, caller_vars, gpx_points, collected_points,
                   stats, bounds, point_idx, ending_reason, distance, elapsed,
                   cursor, ps_vars, hist_vars, other_bounds>>

\* ------------------------- the caller of from_gpx_track (spec.md 2) ----
\* "caller repeatedly invokes Section Builder over the remaining point
\* sequence until empty, accumulating a list of sections"
TrackCall ==
    /\ pc = "track_test"
    /\ Len(points) > 0
    /\ gpx_points' = points
    /\ pc' = "fgt_call"
    /\ UNCHANGED <<input_vars, caller_vars, result, fgt_vars, cursor, ps_vars,
                   hist_vars, other_bounds>>

TrackAssign ==
    /\ pc = "track_assign"
    /\ sections' = Append(sections, result[1])
    /\ points' = result[2]
    /\ pc' = "track_test"
    /\ prev_boundary' =
           IF break_at = 0 THEN <<>> ELSE <<gpx_points[break_at]>>
    /\ UNCHANGED <<input_vars, pass, first_sections, gpx_points, result,
                   fgt_vars, cursor, ps_vars, accepted_idx, break_at,
                   last_round, other_bounds>>

\* A section point handed back to the builder as a GPX point.
to_gpx_point(point) ==
    [latitude |-> point.lat, longitude |-> point.long,
     elevation |-> point.elev, time |-> point.time]

section_points(secs) == [i \in 1..Len(secs) |-> secs[i].points]

concatenation(secs) ==
    LET all == Flatten(section_points(secs))
    IN  [i \in 1..Len(all) |-> to_gpx_point(all[i])]

\* spec.md 8: the points of all sections of the track, in order, are
\* segmented again with the same thresholds.
Resegment ==
    /\ pc = "track_test"
    /\ Len(points) = 0
    /\ pass = 1
    /\ first_sections' = sections
    /\ points' = concatenation(sections)
    /\ sections' = <<>>
    /\ pass' = 2
    /\ UNCHANGED <<input_vars, pc, gpx_points, result, fgt_vars, cursor,
                   ps_vars, hist_vars, other_bounds>>

TrackDone ==
    /\ pc = "track_test"
    /\ Len(points) = 0
    /\ pass = 2
    /\ pc' = "done"
    /\ UNCHANGED <<input_vars, caller_vars, gpx_points, result, fgt_vars,
                   cursor, ps_vars, hist_vars, other_bounds>>

\* ------------------------------------------ Run.process_gpx, 49-51 ------
RunCall ==
    /\ pc = "run_test"
    /\ Len(points) > 0
    /\ gpx_points' = points
    /\ pc' = "ps_call"
    /\ UNCHANGED <<input_vars, caller_vars, result, fgt_vars, cursor, ps_vars,
                   hist_vars, other_bounds>>

RunAssign ==
    /\ pc = "run_assign"
    /\ sections' = Append(sections, result[1])
    /\ points' = result[2]
    /\ pc' = "run_test"
    /\ prev_boundary' =
           IF break_at = 0 THEN <<>> ELSE <<gpx_points[break_at]>>
    /\ UNCHANGED <<input_vars, pass, first_sections, gpx_points, result,
                   fgt_vars, cursor, ps_vars, accepted_idx, break_at,
                   last_round, other_bounds>>

RunDone ==
    /\ pc = "run_test"
    /\ Len(points) = 0
    /\ pc' = "done"
    /\ UNCHANGED <<input_vars, caller_vars, gpx_points, result, fgt_vars,
                   cursor, ps_vars, hist_vars, other_bounds>>

\* ----------------------------- run.py Section.process_section, 88-138 ----
\* Lines 88-95.
PsEnter ==
    /\ pc = "ps_call"
    /\ projected' = <<run_from_gpx_point(gpx_points[1])>>
    /\ lower_bound' = run_from_gpx_point(gpx_points[1]).position
    /\ upper_bound' = run_from_gpx_point(gpx_points[1]).position
    /\ ending_reason' = "all points consumed"
    /\ ommitted_total' = 0
    /\ ommitted_count' = 0
    /\ point_id' = 0
    /\ total_distance' = 0
    /\ cursor' = 0
    /\ accepted_idx' = <<1>>
    /\ break_at' = 0
    /\ last_round' = "none"
    /\ pc' = "ps_loop"
    /\ UNCHANGED <<input_vars, caller_vars, gpx_points, result,
                   collected_points, stats, bounds, point_idx, distance,
                   elapsed, log_discarded, dist_from_prev, idle_time,
                   prev_boundary,
                   other_bounds>>

\* Lines 98-99, 108 for the point of the next round.
ps_more == pc = "ps_loop" /\ cursor + 2 <= Len(gpx_points)
ps_new_point == run_from_gpx_point(gpx_points[cursor + 2])
ps_dist_from_prev ==
    point_distance(ps_new_point.position, Last(projected).position)
ps_idle_time == ps_new_point.time - Last(projected).time

\* Lines 101-104.
PsDuplicate ==
    /\ ps_more
    /\ ps_dist_from_prev <= duplicate_thresh
    /\ ommitted_total' = ommitted_total + ps_dist_from_prev
    /\ ommitted_count' = ommitted_count + 1
    /\ point_id' = cursor
    /\ cursor' = cursor + 1
    /\ dist_from_prev' = ps_dist_from_prev
    /\ last_round' = "duplicate"
    /\ UNCHANGED <<input_vars, pc, caller_vars, gpx_points, result, fgt_vars,
                   projected, lower_bound, upper_bound, total_distance,
                   idle_time, accepted_idx, break_at, prev_boundary,
                   other_bounds>>

\* Lines 106-115.
PsIdle ==
    /\ ps_more
    /\ ~(ps_dist_from_prev <= duplicate_thresh)
    /\ ps_idle_time > idle_thresh
    /\ total_distance' = total_distance + ps_dist_from_prev
    /\ ending_reason' = "idle time exceeds threshold"
    /\ point_id' = cursor - 1
    /\ cursor' = cursor + 1
    /\ dist_from_prev' = ps_dist_from_prev
    /\ idle_time' = ps_idle_time
    /\ break_at' = cursor + 2
    /\ last_round' = "idle"
    /\ pc' = "ps_break"
    /\ UNCHANGED <<input_vars, caller_vars, gpx_points, result,
                   collected_points, stats, bounds, point_idx, distance,
                   elapsed, log_discarded, projected, lower_bound,
                   upper_bound, ommitted_total, ommitted_count, accepted_idx,
                   prev_boundary,
                   other_bounds>>

\* Lines 106-109, 117-125.
PsAccept ==
    /\ ps_more
    /\ ~(ps_dist_from_prev <= duplicate_thresh)
    /\ ~(ps_idle_time > idle_thresh)
    /\ total_distance' = total_distance + ps_dist_from_prev
    /\ upper_bound' =
           [x |-> IF ps_new_point.position.x > upper_bound.x
                  THEN ps_new_point.position.x ELSE upper_bound.x,
            y |-> IF ps_new_point.position.y > upper_bound.y
                  THEN ps_new_point.position.y ELSE upper_bound.y]
    /\ lower_bound' =
           [x |-> IF ps_new_point.position.x < lower_bound.x
                  THEN ps_new_point.position.x ELSE lower_bound.x,
            y |-> IF ps_new_point.position.y < lower_bound.y
                  THEN ps_new_point.position.y ELSE lower_bound.y]
    /\ projected' = Append(projected, ps_new_point)
    /\ point_id' = cursor
    /\ cursor' = cursor + 1
    /\ dist_from_prev' = ps_dist_from_prev
    /\ idle_time' = ps_idle_time
    /\ accepted_idx' = Append(accepted_idx, cursor + 2)
    /\ last_round' = "accepted"
    /\ UNCHANGED <<input_vars, pc, caller_vars, gpx_points, result,
                   collected_points, stats, bounds, point_idx, ending_reason,
                   distance, elapsed, log_discarded, ommitted_total,
                   ommitted_count, break_at, prev_boundary,
                   other_bounds>>

\* Lines 127-138.
PsReturn ==
    /\ \/ pc = "ps_break"
       \/ pc = "ps_loop" /\ ~(cursor + 2 <= Len(gpx_points))
    /\ result' = <<[points |-> projected,
                    bounds |-> <<lower_bound, upper_bound>>,
                    distance |-> total_distance],
                   run_remaining_of(gpx_points, point_id)>>
    /\ pc' = "run_assign"
    /\ UNCHANGED <<input_vars, caller_vars, gpx_points, fgt_vars, cursor,
                   ps_vars, hist_vars, other_bounds>>

\* ------------------------------ SectionBounds.expand on its own ------
\* Two SectionBounds objects made by from_point and widened by any sequence
\* of expand calls, with a point or with the other object.
BoundsPoints ==
    [lat : 0..MaxCoord, long : 0..MaxCoord, elev : Elevations, time : {0}]

InitBounds ==
    /\ mode = "bounds"
    /\ track = <<>>
    /\ min_spacing = 0
    /\ max_speed = 0
    /\ max_idle = 0
    /\ pc = "bounds"
    /\ InitLocals
    /\ \E p \in BoundsPoints, q \in BoundsPoints :
          /\ bounds = from_point(p)
          /\ other_bounds = from_point(q)
    /\ last_round = "none"

bounds_frame ==
    UNCHANGED <<input_vars, pc, caller_vars, gpx_points, result,
                collected_points, stats, point_idx, ending_reason, distance,
                elapsed, log_discarded, cursor, ps_vars, accepted_idx,
                break_at, prev_boundary>>

ExpandWithPoint ==
    /\ pc = "bounds"
    /\ \E p \in BoundsPoints : bounds' = expand_point(bounds, p)
    /\ last_round' = "expand_point"
    /\ UNCHANGED other_bounds
    /\ bounds_frame

ExpandWithBounds ==
    /\ pc = "bounds"
    /\ bounds' = expand_bounds(bounds, other_bounds)
    /\ last_round' = "expand_bounds"
    /\ UNCHANGED other_bounds
    /\ bounds_frame

OtherExpandWithPoint ==
    /\ pc = "bounds"
    /\ \E p \in BoundsPoints : other_bounds' = expand_point(other_bounds, p)
    /\ last_round' = "other_expand_point"
    /\ UNCHANGED bounds
    /\ bounds_frame

\* --------------------------------------------------- specification ----
Next ==
    \/ TrackCall \/ TrackAssign \/ Resegment \/ TrackDone
    \/ FgtEnter \/ FgtDuplicate \/ FgtZeroDivision \/ FgtTooFast
    \/ FgtIdle \/ FgtAccept \/ FgtReturn
    \/ RunCall \/ RunAssign \/ RunDone
    \/ PsEnter \/ PsDuplicate \/ PsIdle \/ PsAccept \/ PsReturn

Spec == Init /\ [][Next]_vars

\* Run.process_gpx alone.  The program is sequential and runs every step it
\* can take, hence the weak fairness.
NextRun ==
    \/ RunCall \/ RunAssign \/ RunDone
    \/ PsEnter \/ PsDuplicate \/ PsIdle \/ PsAccept \/ PsReturn

RunSpec == InitRun /\ [][NextRun]_vars /\ WF_vars(NextRun)

NextBounds == ExpandWithPoint \/ ExpandWithBounds \/ OtherExpandWithPoint

BoundsSpec == InitBounds /\ [][NextBounds]_vars

\* ------------------------------------------------------ properties ----
\* The running or finished call of from_gpx_track still has its argument
\* in gpx_points.
fgt_in_call == mode = "track" /\ pc \in {"fgt_loop", "fgt_break", "error",
                                         "track_assign"}
fgt_returned == mode = "track" /\ pc = "track_assign"

accepted_set == {accepted_idx[i] : i \in 1..Len(accepted_idx)}

\* The last position before j whose point was collected.
ref_before(j) == SetMax({a \in accepted_set : a < j})

gpx_distance(p, q) ==
    geo_distance(p.latitude, p.longitude, p.elevation,
                 q.latitude, q.longitude, q.elevation)

\* The sum of the distances between neighbours in a list of section points.
path_length(pts) ==
    SumSeq([i \in 1..(Len(pts) - 1) |->
               geo_distance(pts[i + 1].lat, pts[i + 1].long, pts[i + 1].elev,
                            pts[i].lat, pts[i].long, pts[i].elev)])

\* The round of the loop just done has examined gpx_points[cursor + 1].
round_done ==
    /\ fgt_in_call
    /\ last_round \in {"duplicate", "too_fast", "idle", "accepted", "error"}

round_ref ==
    IF last_round = "accepted"
    THEN accepted_idx[Len(accepted_idx) - 1]
    ELSE Last(accepted_idx)

\* C1: in every round of the loop the distance and the elapsed time are taken
\* from the examined point to the last point collected before it, whatever was
\* discarded in between, and the outcome of the round follows from them.
C1_ReferenceIsLastAccepted ==
    round_done =>
        LET p == gpx_points[cursor + 1]
            r == gpx_points[round_ref]
            d == gpx_distance(p, r)
            e == p.time - r.time
        IN  /\ round_ref = ref_before(cursor + 1)
            /\ distance = d
            /\ (last_round = "duplicate") = (d < min_spacing)
            /\ last_round # "duplicate" => elapsed = e
            /\ last_round = "too_fast" => speed_exceeds(d, e, max_speed)
            /\ last_round \in {"idle", "accepted"} =>
                   ~speed_exceeds(d, e, max_speed)

\* A point collected right after a discarded one that lies elsewhere than
\* the reference.
C1_Witness ==
    /\ round_done
    /\ last_round = "accepted"
    /\ round_ref < cursor
    /\ gpx_distance(gpx_points[cursor + 1], gpx_points[cursor]) # distance

\* Whether the point at j ends the section: it passes the duplicate and the
\* speed filter against the last collected point before it and is idle.
ends_section(j) ==
    LET p == gpx_points[j]
        r == gpx_points[ref_before(j)]
        d == gpx_distance(p, r)
        e == p.time - r.time
    IN  /\ ~(d < min_spacing)
        /\ e # 0
        /\ ~speed_exceeds(d, e, max_speed)
        /\ e > max_idle

boundaries == {j \in 2..Len(gpx_points) : ends_section(j)}

\* C2: the returned remainder is the input from the first boundary point on,
\* a point that is not in the section; without one it is empty.
C2_RemainingFromBoundary ==
    fgt_returned =>
        /\ result[1].points =
               [i \in 1..Len(accepted_idx) |->
                   from_gpx_point(gpx_points[accepted_idx[i]])]
        /\ IF boundaries = {}
           THEN /\ result[2] = <<>>
                /\ cursor + 1 = Len(gpx_points)
           ELSE /\ result[2] =
                       SubSeq(gpx_points, SetMin(boundaries), Len(gpx_points))
                /\ result[2][1] = gpx_points[SetMin(boundaries)]
                /\ SetMin(boundaries) \notin accepted_set
                /\ \A a \in accepted_set : a < SetMin(boundaries)

\* The second point of three is the boundary.
C2_Witness ==
    /\ fgt_returned
    /\ break_at = 2
    /\ Len(gpx_points) = 3
    /\ Len(result[2]) = 2

\* C3: the distance of a returned section is the sum of the distances between
\* neighbours in its points, and is not negative.
C3_DistanceIsPathLength ==
    fgt_returned =>
        /\ result[1].stats.distance >= 0
        /\ result[1].stats.distance = path_length(result[1].points)

\* A, B, C with B discarded, where the way over B is longer than A to C.
C3_Witness ==
    /\ fgt_returned
    /\ accepted_idx = <<1, 3>>
    /\ result[1].stats.distance = gpx_distance(gpx_points[1], gpx_points[3])
    /\ gpx_distance(gpx_points[1], gpx_points[2])
         + gpx_distance(gpx_points[2], gpx_points[3])
         # result[1].stats.distance

\* C4: a point that reaches the speed filter with an elapsed time of zero
\* or less ends the call with an error; it is neither collected nor discarded.
C4_NonPositiveElapsedIsAnError ==
    (round_done /\ last_round # "duplicate" /\ elapsed <= 0) => pc = "error"

\* C5: segmenting the concatenation of the sections of a track again gives
\* the same sections, and discards nothing.
C5_ResegmentationIsIdempotent ==
    (mode = "track" /\ pass = 2) =>
        /\ pc # "error"
        /\ round_done => last_round \in {"accepted", "idle"}
        /\ pc = "done" =>
               /\ section_points(sections) = section_points(first_sections)
               /\ sections = first_sections

\* Both passes are done, over two sections or more and a track of which
\* points were discarded.
C5_Witness ==
    /\ mode = "track"
    /\ pc = "done"
    /\ Len(first_sections) >= 2
    /\ Len(concatenation(first_sections)) < Len(track)

\* The smallest rectangle around a list of section points.
enclosing(pts) ==
    LET lats == {pts[i].lat : i \in 1..Len(pts)}
        longs == {pts[i].long : i \in 1..Len(pts)}
    IN  [lat_min |-> SetMin(lats), lat_max |-> SetMax(lats),
         long_min |-> SetMin(longs), long_max |-> SetMax(longs)]

\* C6: the bounds of a returned section are the smallest rectangle around
\* its points, with each minimum at or below its maximum.
C6_BoundsEncloseThePoints ==
    fgt_returned =>
        /\ result[1].bounds = enclosing(result[1].points)
        /\ result[1].bounds.lat_min <= result[1].bounds.lat_max
        /\ result[1].bounds.long_min <= result[1].bounds.long_max

\* A section of two points or more, with an input point left out of it that
\* lies outside its bounds.
C6_Witness ==
    /\ fgt_returned
    /\ Len(result[1].points) >= 2
    /\ \E j \in 1..Len(gpx_points) :
          /\ j \notin accepted_set
          /\ \/ gpx_points[j].latitude > result[1].bounds.lat_max
             \/ gpx_points[j].longitude > result[1].bounds.long_max
             \/ gpx_points[j].latitude < result[1].bounds.lat_min
             \/ gpx_points[j].longitude < result[1].bounds.long_min

\* after is before widened, or before itself, and is a rectangle.
widened(before, after) ==
    /\ after.lat_min <= before.lat_min
    /\ after.long_min <= before.long_min
    /\ after.lat_max >= before.lat_max
    /\ after.long_max >= before.long_max
    /\ after.lat_min <= after.lat_max
    /\ after.long_min <= after.long_max

\* C7: no expand call, with a point or with other bounds, raises a minimum
\* or lowers a maximum, and after each call the minima are at or below the
\* maxima.
C7_BoundsOnlyWiden ==
    [][widened(bounds, bounds') /\ widened(other_bounds, other_bounds')]_vars

\* A merge has left the bounds a proper rectangle larger than the other one.
C7_Witness ==
    /\ mode = "bounds"
    /\ last_round = "expand_bounds"
    /\ bounds # other_bounds
    /\ bounds.lat_min < bounds.lat_max
    /\ bounds.long_min < bounds.long_max
    /\ other_bounds.lat_min < other_bounds.lat_max

\* C8: the while loop of Run.process_gpx comes to its end: the builder is
\* never called without points, and every remainder it returns is shorter
\* than its argument.
C8_DrivingLoopTerminates ==
    /\ <>(pc = "done")
    /\ [](pc = "ps_call" => Len(gpx_points) > 0)
    /\ [](pc = "run_assign" => Len(result[2]) < Len(gpx_points))

\* The loop has ended after two builder calls.
C8_Witness ==
    /\ mode = "run"
    /\ pc = "done"
    /\ Len(sections) = 2

\* C9: a returned section starts with a copy of the first input point, and
\* the point that ended the section before is the first point of this one.
C9_FirstPointIsCollected ==
    /\ fgt_returned =>
           /\ Len(result[1].points) >= 1
           /\ result[1].points[1] = from_gpx_point(gpx_points[1])
    /\ (fgt_in_call /\ prev_boundary # <<>>) =>
           collected_points[1] = from_gpx_point(prev_boundary[1])

\* A section that starts with the boundary point of the section before and
\* has more points.
C9_Witness ==
    /\ fgt_returned
    /\ prev_boundary # <<>>
    /\ result[1].points[1] = from_gpx_point(prev_boundary[1])
    /\ Len(result[1].points) >= 2

\* C10: one input point gives a section of that point alone, with distance
\* 0, bounds that are the point, and an empty remainder.
C10_SinglePoint ==
    (fgt_returned /\ Len(gpx_points) = 1) =>
        /\ result[1].points = <<from_gpx_point(gpx_points[1])>>
        /\ result[1].stats.distance = 0
        /\ result[1].bounds =
               [lat_min |-> gpx_points[1].latitude,
                lat_max |-> gpx_points[1].latitude,
                long_min |-> gpx_points[1].longitude,
                long_max |-> gpx_points[1].longitude]
        /\ result[2] = <<>>

\* A call with one point away from the origin has returned.
C10_Witness ==
    /\ fgt_returned
    /\ Len(gpx_points) = 1
    /\ gpx_points[1].latitude = 3
    /\ gpx_points[1].longitude = 1
    /\ gpx_points[1].time = 1

\* dist / secs > limit, for secs # 0.
faster_than(dist, secs, limit) ==
    \/ secs > 0 /\ dist > limit * secs
    \/ secs < 0 /\ dist < limit * secs

\* C11: neighbours in the points of a returned section are at least
\* min_spacing apart, not faster than max_speed and not more than max_idle
\* apart in time.
C11_NeighboursPassAllFilters ==
    fgt_returned =>
        \A i \in 1..(Len(result[1].points) - 1) :
            LET p == result[1].points[i]
                q == result[1].points[i + 1]
                d == geo_distance(q.lat, q.long, q.elev, p.lat, p.long, p.elev)
                e == q.time - p.time
            IN  /\ d >= min_spacing
                /\ e # 0
                /\ ~faster_than(d, e, max_speed)
                /\ e <= max_idle

\* A section of three points under thresholds that discard some pairs.
C11_Witness ==
    /\ fgt_returned
    /\ Len(result[1].points) = 3
    /\ min_spacing >= 1
    /\ max_speed = 1
    /\ max_idle = 1

\* C12: the duplicate filter comes first, the speed filter second, the idle
\* test last: an idle point that is too close or too fast is discarded and
\* the section goes on; the section ends only at a point that passes both
\* filters.
C12_FilterPrecedence ==
    round_done =>
        LET p == gpx_points[cursor + 1]
            r == gpx_points[round_ref]
            d == gpx_distance(p, r)
            e == p.time - r.time
            too_close == d < min_spacing
            too_fast == e # 0 /\ faster_than(d, e, max_speed)
        IN  /\ too_close => last_round = "duplicate"
            /\ (~too_close /\ too_fast) => last_round = "too_fast"
            /\ (e > max_idle /\ (too_close \/ too_fast)) =>
                   /\ last_round \in {"duplicate", "too_fast"}
                   /\ break_at = 0
                   /\ pc # "fgt_break"
                   /\ ending_reason = "all points consumed"
            /\ last_round = "idle" =>
                   /\ ~too_close
                   /\ ~too_fast
                   /\ e > max_idle
                   /\ break_at = cursor + 1

\* A point both too fast and idle has been discarded and the loop goes on.
C12_Witness ==
    /\ round_done
    /\ pc = "fgt_loop"
    /\ last_round = "too_fast"
    /\ elapsed > max_idle
    /\ cursor + 2 <= Len(gpx_points)

Smaller(a, b) == IF a <= b THEN a ELSE b
Larger(a, b) == IF a >= b THEN a ELSE b

\* The smallest rectangle that contains the rectangles a and b.
hull(a, b) ==
    [lat_min |-> Smaller(a.lat_min, b.lat_min),
     lat_max |-> Larger(a.lat_max, b.lat_max),
     long_min |-> Smaller(a.long_min, b.long_min),
     long_max |-> Larger(a.long_max, b.long_max)]

\* C13: expand with other bounds leaves the receiver the smallest rectangle
\* that contains both, and leaves the argument as it was.
C13_MergeIsTheHull ==
    [][last_round' = "expand_bounds" =>
          /\ bounds' = hull(bounds, other_bounds)
          /\ other_bounds' = other_bounds]_vars

\* After a merge the receiver reaches below the argument in latitude and
\* beyond it in longitude, and the argument is a proper rectangle.
C13_Witness ==
    /\ mode = "bounds"
    /\ last_round = "expand_bounds"
    /\ bounds.lat_min < other_bounds.lat_min
    /\ bounds.lat_max = other_bounds.lat_max
    /\ bounds.long_max > other_bounds.long_max
    /\ other_bounds.long_min < other_bounds.long_max
    /\ other_bounds.lat_min < other_bounds.lat_max

RECURSIVE IsSubseq(_, _)
\* s is t with some elements left out.
IsSubseq(s, t) ==
    IF s = <<>> THEN TRUE
    ELSE IF t = <<>> THEN FALSE
    ELSE IF s[1] = t[1] THEN IsSubseq(Tail(s), Tail(t))
    ELSE IsSubseq(s, Tail(t))

\* A GPX point as the running builder stores it in a section.
as_section_point(gpx_point) ==
    IF mode = "run" THEN run_from_gpx_point(gpx_point)
    ELSE from_gpx_point(gpx_point)

as_section_points(gpx) == [i \in 1..Len(gpx) |-> as_section_point(gpx[i])]

\* A builder call on the track itself has returned.
call_returned == pc \in {"track_assign", "run_assign"} /\ pass = 1

\* The number of input points the returned call has used up.
consumed == Len(gpx_points) - Len(result[2])

\* Whether a filter of the running builder discards the point at j, measured
\* from the last collected point before it.
filter_discards(j) ==
    LET p == gpx_points[j]
        r == gpx_points[ref_before(j)]
    IN  IF mode = "run"
        THEN point_distance(web_mercator(p), web_mercator(r))
                 <= duplicate_thresh
        ELSE \/ gpx_distance(p, r) < min_spacing
             \/ /\ p.time # r.time
                /\ faster_than(gpx_distance(p, r), p.time - r.time, max_speed)

\* The sections the loop over the track has produced, once it has ended.
produced == IF mode = "track" THEN first_sections ELSE sections

\* C14: every builder call works on a suffix of the track and returns a
\* shorter suffix; the points of its section are input points of the part it
\* used up, in input order, and every other point of that part was discarded
\* by a filter; so the points of all sections, in order, are the track with
\* the discarded points left out.
C14_SectionsAreASubsequence ==
    /\ call_returned =>
           LET offset == Len(track) - Len(gpx_points)
           IN  /\ gpx_points = SubSeq(track, offset + 1, Len(track))
               /\ consumed >= 1
               /\ result[2] =
                      SubSeq(gpx_points, consumed + 1, Len(gpx_points))
               /\ \A i \in 1..Len(accepted_idx) :
                      /\ accepted_idx[i] \in 1..consumed
                      /\ i > 1 => accepted_idx[i - 1] < accepted_idx[i]
               /\ result[1].points =
                      [i \in 1..Len(accepted_idx) |->
                          as_section_point(gpx_points[accepted_idx[i]])]
               /\ \A j \in 1..consumed :
                      j \notin accepted_set => filter_discards(j)
               /\ IsSubseq(Flatten(section_points(sections)),
                           as_section_points(SubSeq(track, 1, offset)))
    /\ pc = "done" =>
           IsSubseq(Flatten(section_points(produced)),
                    as_section_points(track))

\* Run.process_gpx has ended with two sections and a discarded point.
C14_Witness ==
    /\ mode = "run"
    /\ pc = "done"
    /\ Len(sections) = 2
    /\ Len(Flatten(section_points(sections))) < Len(track)

\* The sum of the planar distances between neighbours in a list of run.py
\* section points.
run_path_length(pts) ==
    SumSeq([i \in 1..(Len(pts) - 1) |->
               point_distance(pts[i + 1].position, pts[i].position)])

\* C15: the distance of a section returned by process_section is the sum of
\* the planar distances between neighbours in its points; the way to the
\* point that ended the section is not in it.
C15_RunDistanceIsPathLength ==
    (mode = "run" /\ pc = "run_assign") =>
        result[1].distance = run_path_length(result[1].points)

\* C16: the logged discard count is the number of input points the call used
\* up less the number it collected; it is not negative, and 0 when every
\* point used up was collected.
C16_DiscardCountIsUsedLessCollected ==
    fgt_returned =>
        /\ log_discarded = consumed - Len(result[1].points)
        /\ log_discarded >= 0
        /\ accepted_set = 1..consumed => log_discarded = 0

====
